---------------------------- MODULE Spec2Model ----------------------------
(***************************************************************************)
(* TakamoMap: the data loader (src/utils/data_loader.py), the ownership    *)
(* cache and the selection of the application (src/app.py), the start of   *)
(* the program (src/main.py) and the coordinate codec                      *)
(* (src/utils/coordinates.py).                                             *)
(*                                                                         *)
(* Five specifications: Spec (the loader and the cache under loads against *)
(* any store), EdgeSpec (the same over stores with locations that are      *)
(* numbers or written with "/"), MainSpec (the program from its start,     *)
(* against one store on disk), CodecSpec (the codec functions applied to a *)
(* code) and SelectSpec (the selections and lookups of the user interface  *)
(* over a loaded repository).                                              *)
(*                                                                         *)
(* Text values (location codes, owner names) are sequences of one-         *)
(* character strings, so that slicing, splitting on "/", upper-casing and  *)
(* substring search are computed as the Python code computes them.  A      *)
(* column value is a record: Txt(s) for text, Null for SQL NULL and       *)
(* Num(n) for an integer.  An id that may be None is <<>> or <<id>>.     *)
(***************************************************************************)
EXTENDS Integers, Sequences, FiniteSets, TLC

VARIABLES
    data_loader,        \* App.data_loader, the DataLoader: a record of its
                        \* fields sectors, subsectors, systems, planets (lists
                        \* of rows), sector_codes (set of codes) and
                        \* sector_by_code, subsector_by_code, system_by_code
                        \* (code -> id)
    conn,               \* DataLoader.conn: "None" or "open"
    unreleased,         \* connections opened by earlier loads, dropped by
                        \* DataLoader.conn without close(), and still open
    wyvern_locations,   \* App.wyvern_locations (set of codes)
    db,                 \* the backing store as the most recent load saw it
    lastLoad,           \* how the most recent load ended: "none" before the
                        \* first, "ok" (load returned), "error" (load raised)
    store,              \* the database file at db_path, as it is on disk
    pc,                 \* where main.py is: "main" (started), "checked" (after
                        \* its Wyvern check), "app" (App constructed)
    location,           \* the code handed to the coordinate codec
    coords,             \* what the codec returned for it
    selection,          \* App.selected_sector, selected_subsector,
                        \* selected_system, selected_planet
    call                \* the most recent selection or lookup call of the
                        \* user interface: its name, argument and result

vars == <<data_loader, conn, unreleased, wyvern_locations, db, lastLoad,
          store, pc, location, coords, selection, call>>

---------------------------------------------------------------------------
(* Bounds *)

\* connections that may stay open unreleased before the model stops loading
MaxUnreleased == 1

---------------------------------------------------------------------------
(* Column values and text *)

Null == [t |-> "null", s |-> <<>>]
Txt(s) == [t |-> "text", s |-> s]

\* a column value that is a number (an INTEGER stored in a column)
Num(n) == [t |-> "int", n |-> n]

\* Python truthiness of a column value: None, "" and 0 are false
Truthy(v) == (v.t = "text" /\ v.s # <<>>) \/ (v.t = "int" /\ v.n # 0)

\* a value that passes the truthiness test and is not text: len(v), v[:3] and
\* v.upper() raise
NonText(v) == v.t = "int" /\ v.n # 0

\* s[:n]
Prefix(s, n) == SubSeq(s, 1, IF Len(s) < n THEN Len(s) ELSE n)

HasSlash(s) == \E i \in 1..Len(s) : s[i] = "/"

RECURSIVE SplitSlash(_)
\* str.split('/'): the parts between the slashes, empty parts included
SplitSlash(s) ==
    IF ~HasSlash(s) THEN <<s>>
    ELSE LET i == CHOOSE k \in 1..Len(s) :
                      s[k] = "/" /\ \A j \in 1..(k - 1) : s[j] # "/"
         IN  <<SubSeq(s, 1, i - 1)>> \o SplitSlash(SubSeq(s, i + 1, Len(s)))

LowerLetters == <<"a", "b", "c", "d", "e", "f", "g", "h", "i", "j", "k", "l", "m",
                  "n", "o", "p", "q", "r", "s", "t", "u", "v", "w", "x", "y", "z">>
UpperLetters == <<"A", "B", "C", "D", "E", "F", "G", "H", "I", "J", "K", "L", "M",
                  "N", "O", "P", "Q", "R", "S", "T", "U", "V", "W", "X", "Y", "Z">>

\* the upper-case form of each lower-case letter
UpperOf == [c \in {LowerLetters[i] : i \in 1..26} |->
               UpperLetters[CHOOSE i \in 1..26 : LowerLetters[i] = c]]

UpperChar(c) == IF c \in DOMAIN UpperOf THEN UpperOf[c] ELSE c

\* str.upper()
Upper(s) == [i \in 1..Len(s) |-> UpperChar(s[i])]

\* needle in hay
Contains(hay, needle) ==
    \E i \in 1..(Len(hay) - Len(needle) + 1) :
        \A j \in 1..Len(needle) : hay[i + j - 1] = needle[j]

WYVERN_MARKER == <<"W", "Y", "V", "E", "R", "N", " ", "S", "U", "P", "R", "E", "M", "A", "C", "Y">>
ANM == <<"A", "N", "M">>

StubNote == "Automatically generated stub sector"
ManualNote == "Manually created stub sector"
StubNav == "Unexplored Sector"

---------------------------------------------------------------------------
(* Rows of the backing store and the databases a load may find *)

Sec(i, code) == [id |-> i, location |-> Txt(code), nav |-> "", note |-> ""]
Row(i, code) == [id |-> i, location |-> Txt(code)]
Pl(i, loc, own) == [id |-> i, location |-> loc, owner |-> own]

ABC == <<"A", "B", "C">>
MMM == <<"M", "M", "M">>
MMN == <<"M", "M", "N">>
ABC123 == <<"A", "B", "C", "1", "2", "3">>
ABC1231 == <<"A", "B", "C", "1", "2", "3", "1">>
MMM1111 == <<"M", "M", "M", "1", "1", "1", "1">>
ABC12311 == <<"A", "B", "C", "1", "2", "3", "1", "1">>
ABC12312 == <<"A", "B", "C", "1", "2", "3", "1", "2">>
MMM2221 == <<"M", "M", "M", "2", "2", "2", "1">>
MMM222 == <<"M", "M", "M", "2", "2", "2">>
MMM11111 == <<"M", "M", "M", "1", "1", "1", "1", "1">>
MMM22211 == <<"M", "M", "M", "2", "2", "2", "1", "1">>
MMM_222_1 == <<"M", "M", "M", "/", "2", "2", "2", "/", "1">>
MMM_2_2_1 == <<"M", "M", "M", "/", "2", "/", "2", "/", "1">>
OwnerFleet == <<"W", "y", "v", "e", "r", "n", " ", "S", "u", "p", "r", "e", "m", "a", "c", "y",
                " ", "F", "l", "e", "e", "t", " ", "C", "o", "m", "m", "a", "n", "d">>
OwnerLower == <<"w", "y", "v", "e", "r", "n", " ", "s", "u", "p", "r", "e", "m", "a", "c", "y">>
OwnerThe == <<"T", "h", "e", " ", "W", "y", "v", "e", "r", "n", " ", "S", "u", "p", "r", "e", "m", "a", "c", "y">>
OwnerTerran == <<"T", "e", "r", "r", "a", "n">>
OwnerWyvern == <<"W", "y", "v", "e", "r", "n", " ", "F", "l", "e", "e", "t">>

Tables == {"sectors", "subsectors", "systems", "planets"}

\* the row sets a healthy store may hold
Data(s, u, y, p) == [sectors |-> s, subsectors |-> u, systems |-> y, planets |-> p]

Datasets ==
    << Data(<<>>, <<>>, <<>>, <<>>),
       Data(<<Sec(1, ABC)>>, <<Row(1, ABC123)>>, <<Row(1, ABC1231)>>,
            <<Pl(1, Txt(ABC12311), Txt(OwnerTerran)), Pl(2, Txt(ABC12312), Null)>>),
       Data(<<>>, <<>>, <<>>, <<Pl(1, Txt(MMM2221), Txt(OwnerFleet))>>),
       Data(<<>>, <<>>, <<>>, <<Pl(1, Txt(MMM_222_1), Txt(OwnerLower))>>),
       Data(<<>>, <<>>, <<>>, <<Pl(1, Txt(MMM_2_2_1), Txt(WYVERN_MARKER))>>),
       Data(<<Sec(1, ABC)>>, <<>>, <<>>, <<Pl(1, Txt(MMM222), Txt(OwnerThe))>>),
       Data(<<Sec(3, ABC), Sec(1, <<>>), Sec(4, ABC)>>,
            <<Row(1, ABC123)>>, <<Row(1, MMM1111)>>, <<>>),
       Data(<<Sec(1, ABC)>>, <<Row(1, ABC123)>>, <<Row(1, ABC1231)>>,
            <<Pl(1, Txt(MMM22211), Txt(OwnerThe)), Pl(2, Txt(ABC12311), Txt(<<>>)),
              Pl(3, Txt(<<>>), Txt(OwnerFleet))>>),
       Data(<<>>, <<>>, <<>>,
            <<Pl(1, Txt(MMM2221), Txt(OwnerWyvern)), Pl(2, Null, Txt(OwnerLower))>>) >>

MM_222 == <<"M", "M", "/", "2", "2", "2">>
AB_123_1 == <<"A", "B", "/", "1", "2", "3", "/", "1">>

\* row sets with a location that is a number, and with subsector and system
\* locations written with "/"
EdgeDatasets ==
    << Data(<<Sec(1, ABC)>>, <<Row(1, ABC123)>>, <<>>,
            <<Pl(1, Num(5), Null), Pl(2, Txt(MMM2221), Txt(OwnerFleet))>>),
       Data(<<Sec(1, ABC)>>, <<Row(1, MM_222)>>, <<Row(1, AB_123_1)>>, <<>>),
       Data(<<>>, <<>>, <<Row(1, MMM1111)>>,
            <<Pl(1, Num(0), Null), Pl(2, Null, Null), Pl(3, Txt(<<>>), Null)>>) >>

\* rows that carry the id of their parent in a column of their own
SubIn(i, loc, sid) == [id |-> i, location |-> loc, sector_id |-> sid]
SysIn(i, loc, uid) == [id |-> i, location |-> loc, subsector_id |-> uid]
PlIn(i, loc, own, yid) == [id |-> i, location |-> loc, owner |-> own, system_id |-> yid]

\* an id or Python's None (a parent-id column: an id or NULL)
None == <<>>
Some(i) == <<i>>

\* row sets in which some rows name their parent and some do not
SelectionDatasets ==
    << Data(<<Sec(1, ABC), Sec(2, MMM), Sec(3, <<>>)>>,
            <<SubIn(1, Txt(ABC123), Some(1)), SubIn(2, Txt(MMM222), None),
              SubIn(3, Null, None)>>,
            <<SysIn(1, Txt(ABC1231), Some(1)), SysIn(2, Txt(MMM2221), Some(2)),
              SysIn(3, Txt(MMM1111), None)>>,
            <<PlIn(1, Txt(ABC12311), Txt(OwnerFleet), Some(1)),
              PlIn(2, Txt(MMM22211), Null, None),
              PlIn(3, Txt(MMM11111), Null, None)>>),
       Data(<<Sec(1, ABC)>>,
            <<Row(1, ABC123), Row(2, MMM222)>>,
            <<Row(1, ABC1231), Row(2, MMM2221)>>,
            <<Pl(1, Txt(ABC12311), Null), Pl(2, Txt(MMM22211), Null),
              Pl(3, Txt(<<>>), Null)>>) >>

\* every row set, by the number a store names it with
AllDatasets == Datasets \o EdgeDatasets \o SelectionDatasets

\* how a table answers: "ok" (rows), "absent" (not in sqlite_master),
\* "fail" (listed, but its SELECT raises)
AllOk == [t \in Tables |-> "ok"]

Faults ==
    {AllOk} \cup { [AllOk EXCEPT ![t] = f] : t \in Tables, f \in {"absent", "fail"} }

\* A backing store: file is "ok", "missing" (os.path.exists is false) or
\* "unopenable" (the path exists and sqlite3.connect raises); st is how each
\* table answers; ds is the number of the dataset its tables were created
\* with; upd tells that the UPDATE of main.py was applied to them since
Databases ==
    { [file |-> "ok", st |-> f, ds |-> n, upd |-> FALSE] :
          f \in Faults, n \in DOMAIN Datasets }
    \cup { [file |-> k, st |-> AllOk, ds |-> 1, upd |-> FALSE] :
              k \in {"missing", "unopenable"} }

NoDb == [file |-> "none", st |-> AllOk, ds |-> 1, upd |-> FALSE]

\* the stores created with the row sets of EdgeDatasets
EdgeDatabases ==
    { [file |-> "ok", st |-> f, ds |-> Len(Datasets) + n, upd |-> FALSE] :
          f \in Faults, n \in DOMAIN EdgeDatasets }

\* the stores created with the row sets of SelectionDatasets
SelectionDatabases ==
    { [file |-> "ok", st |-> f, ds |-> Len(Datasets) + Len(EdgeDatasets) + n,
       upd |-> FALSE] :
          f \in {AllOk, [AllOk EXCEPT !["sectors"] = "absent"]},
          n \in DOMAIN SelectionDatasets }

\* main.py line 53: UPDATE planets SET owner = 'WYVERN SUPREMACY' WHERE id = ?
\* with the id of the row SELECT id, location FROM planets LIMIT 1 returned
UpdateOwner(rows) ==
    [i \in 1..Len(rows) |->
        IF rows[i].id = rows[1].id
        THEN [rows[i] EXCEPT !.owner = Txt(WYVERN_MARKER)]
        ELSE rows[i]]

\* the rows of table t in the store d
RowsOf(d, t) ==
    IF d.upd /\ t = "planets"
    THEN UpdateOwner(AllDatasets[d.ds][t])
    ELSE AllDatasets[d.ds][t]

---------------------------------------------------------------------------
(* DataLoader: the repository held in memory *)

EmptyIndex == [c \in {} |-> 0]

\* DataLoader.__init__
NewLoader == [sectors |-> <<>>, subsectors |-> <<>>, systems |-> <<>>,
              planets |-> <<>>, sector_codes |-> {},
              sector_by_code |-> EmptyIndex, subsector_by_code |-> EmptyIndex,
              system_by_code |-> EmptyIndex]

Range(q) == {q[i] : i \in 1..Len(q)}

MaxOf(S) == CHOOSE m \in S : \A x \in S : x <= m

\* {row['location']: row['id'] for row in rows if row['location']}:
\* of two rows with the same location the later one wins
IndexOf(rows) ==
    LET keyed == {i \in 1..Len(rows) : Truthy(rows[i].location)}
        keys == {rows[i].location.s : i \in keyed}
    IN  [c \in keys |-> rows[MaxOf({i \in keyed : rows[i].location.s = c})].id]

\* {sector['location'] for sector in sectors if sector['location']}
CodesOf(rows) == {r.location.s : r \in {x \in Range(rows) : Truthy(x.location)}}

load_sectors(L, st, rows) ==
    IF st = "fail"
    THEN [L EXCEPT !.sectors = <<>>]
    ELSE [L EXCEPT !.sectors = rows,
                   !.sector_codes = CodesOf(rows),
                   !.sector_by_code = IndexOf(rows)]

load_subsectors(L, st, rows) ==
    IF st = "fail"
    THEN [L EXCEPT !.subsectors = <<>>]
    ELSE [L EXCEPT !.subsectors = rows, !.subsector_by_code = IndexOf(rows)]

load_systems(L, st, rows) ==
    IF st = "fail"
    THEN [L EXCEPT !.systems = <<>>]
    ELSE [L EXCEPT !.systems = rows, !.system_by_code = IndexOf(rows)]

\* load_planets with the except branch leaving the list as it was
load_planets_KeepOnFail(L, st, rows) ==
    IF st = "fail" THEN L ELSE [L EXCEPT !.planets = rows]

load_planets(L, st, rows) ==
    IF st = "fail"
    THEN [L EXCEPT !.planets = <<>>]
    ELSE [L EXCEPT !.planets = rows]

\* NextId counting the records instead of taking the largest id
NextId_Count(secs) == Len(secs) + 1

\* max([sector.get('id', 0) for sector in sectors], default=0) + 1
NextId(secs) == IF secs = <<>> THEN 1 ELSE MaxOf({s.id : s \in Range(secs)}) + 1

\* the sector code a planet location implies: the part before the first "/",
\* or the first three characters
PlanetSectorCode(loc) == IF HasSlash(loc) THEN SplitSlash(loc)[1] ELSE Prefix(loc, 3)

\* len(location) of lines 190, 205 and 217 raises for a location that is
\* not text; it stands outside the inner try
ScanRaises(L) ==
    \E r \in Range(L.planets) \cup Range(L.systems) \cup Range(L.subsectors) :
        NonText(r.location)

\* the codes _create_stub_sectors makes stubs for: its missing_sectors, or
\* none when the scan raised, which the except of line 247 ends it with
MissingSectors(L) ==
    LET long(rows) == {r.location.s : r \in {x \in Range(rows) :
                           Truthy(x.location) /\ Len(x.location.s) >= 3}}
        implied == {PlanetSectorCode(loc) : loc \in long(L.planets)}
                   \cup {Prefix(loc, 3) : loc \in long(L.systems)}
                   \cup {Prefix(loc, 3) : loc \in long(L.subsectors)}
    IN  IF ScanRaises(L) THEN {}
        ELSE {c \in implied : c # <<>> /\ c \notin L.sector_codes}

\* the orders in which a Python set of codes may be iterated
Orders(S) ==
    {o \in [1..Cardinality(S) -> S] : \A c \in S : \E i \in DOMAIN o : o[i] = c}

StubSector(i, code, note) ==
    [id |-> i, location |-> Txt(code), nav |-> StubNav, note |-> note]

\* _create_stub_sectors, the missing codes taken in the order `order`
create_stub_sectors(L, order) ==
    LET first == NextId(L.sectors)
        stubs == [i \in 1..Len(order) |-> StubSector(first + i - 1, order[i], StubNote)]
        new   == Range(order)
    IN  [L EXCEPT !.sectors = L.sectors \o stubs,
                  !.sector_codes = L.sector_codes \cup new,
                  !.sector_by_code =
                      [c \in (DOMAIN L.sector_by_code) \cup new |->
                          IF c \in new
                          THEN first + (CHOOSE i \in 1..Len(order) : order[i] = c) - 1
                          ELSE L.sector_by_code[c]]]

\* _create_specific_sector
create_specific_sector(L, code) ==
    IF code \in L.sector_codes
    THEN L
    ELSE LET i == NextId(L.sectors)
         IN  [L EXCEPT !.sectors = Append(L.sectors, StubSector(i, code, ManualNote)),
                       !.sector_codes = L.sector_codes \cup {code},
                       !.sector_by_code =
                           [c \in (DOMAIN L.sector_by_code) \cup {code} |->
                               IF c = code THEN i ELSE L.sector_by_code[c]]]

\* load(), lines 38-56: each table that sqlite_master lists is read, a table
\* it does not list is skipped
LoadTables(L, d) ==
    LET a == IF d.st["sectors"] = "absent" THEN L
             ELSE load_sectors(L, d.st["sectors"], RowsOf(d, "sectors"))
        b == IF d.st["subsectors"] = "absent" THEN a
             ELSE load_subsectors(a, d.st["subsectors"], RowsOf(d, "subsectors"))
        c == IF d.st["systems"] = "absent" THEN b
             ELSE load_systems(b, d.st["systems"], RowsOf(d, "systems"))
    IN  IF d.st["planets"] = "absent" THEN c
        ELSE load_planets(c, d.st["planets"], RowsOf(d, "planets"))

\* load(), lines 64-71: the ANM sector is created when no sector has it
EnsureANM(L) ==
    IF \E s \in Range(L.sectors) : s.location = Txt(ANM)
    THEN L
    ELSE create_specific_sector(L, ANM)

\* load(), lines 73-81: whatever was raised, the four lists are emptied
LoadFailed(L) ==
    [L EXCEPT !.sectors = <<>>, !.subsectors = <<>>, !.systems = <<>>,
              !.planets = <<>>]

---------------------------------------------------------------------------
(* App: the ownership cache *)

\* WyvernOwned comparing the owner as written, without upper()
WyvernOwned_CaseSensitive(planet) ==
    /\ Truthy(planet.owner)
    /\ Contains(planet.owner.s, WYVERN_MARKER)
    /\ Truthy(planet.location)

\* app.py line 230: owner and "WYVERN SUPREMACY" in owner.upper() and location
WyvernOwned(planet) ==
    /\ Truthy(planet.owner)
    /\ Contains(Upper(planet.owner.s), WYVERN_MARKER)
    /\ Truthy(planet.location)

\* app.py lines 234-247: the location and, nested, its fixed-width prefixes
FixedWidthCodes(loc) ==
    {loc} \cup
    (IF Len(loc) >= 7
     THEN {Prefix(loc, 7)} \cup
          (IF Len(loc) >= 6
           THEN {Prefix(loc, 6)} \cup (IF Len(loc) >= 3 THEN {Prefix(loc, 3)} ELSE {})
           ELSE {})
     ELSE {})

\* SlashCodes adding the sector part only, without the joined codes
SlashCodes_SectorOnly(loc) ==
    IF ~HasSlash(loc) THEN {} ELSE {SplitSlash(loc)[1]}

\* app.py lines 250-261: the codes joined from the "/"-separated parts
SlashCodes(loc) ==
    IF ~HasSlash(loc) THEN {}
    ELSE LET parts == SplitSlash(loc)
         IN  {parts[1]} \cup
             (IF Len(parts) >= 2
              THEN {parts[1] \o parts[2]} \cup
                   (IF Len(parts) >= 3 THEN {parts[1] \o parts[2] \o parts[3]} ELSE {})
              ELSE {})

\* what one Wyvern-owned planet adds to the cache
WyvernCodes(loc) == FixedWidthCodes(loc) \cup SlashCodes(loc)

RECURSIVE AddPlanets(_, _)
\* the loop of build_wyvern_locations_cache over the planets, in list order
AddPlanets(cache, ps) ==
    IF ps = <<>> THEN cache
    ELSE AddPlanets(IF WyvernOwned(Head(ps))
                    THEN cache \cup WyvernCodes(Head(ps).location.s)
                    ELSE cache,
                    Tail(ps))

\* the loop raises at this planet: owner.upper() of an owner that is not
\* text, or len(location) of a location that is not text (line 237)
CacheRaises(planet) ==
    \/ NonText(planet.owner)
    \/ /\ planet.owner.t = "text"
       /\ Contains(Upper(planet.owner.s), WYVERN_MARKER)
       /\ NonText(planet.location)

\* build_wyvern_locations_cache without the reset of line 218
build_wyvern_locations_cache_Incremental(old, ps) == AddPlanets(old, ps)

\* build_wyvern_locations_cache: the old cache is dropped (line 218) and the
\* new one is built from the planets the loader holds; when the loop raises
\* the cache is left empty (lines 267-269)
build_wyvern_locations_cache(old, ps) ==
    IF \E i \in 1..Len(ps) : CacheRaises(ps[i]) THEN {} ELSE AddPlanets({}, ps)

\* is_wyvern_location
is_wyvern_location(code) == code # <<>> /\ code \in wyvern_locations

---------------------------------------------------------------------------
(* The coordinate codec (utils/coordinates.py) *)

\* ord('A'), subtracted from each character code
ORD_A == 65
\* the upper end of the clamp of a sector axis
MAX_AXIS == 25
\* the upper end of the clamp of a subsector offset and of a system position
MAX_OFFSET == 9

DigitChars == <<"0", "1", "2", "3", "4", "5", "6", "7", "8", "9">>

\* the letter sharp s (U+00DF), a character whose upper() is two characters
SharpS == "ß"

\* ord(c) of the characters the codes of the model are written with
CharCode ==
    [c \in {UpperLetters[i] : i \in 1..26} |->
        64 + (CHOOSE i \in 1..26 : UpperLetters[i] = c)]
    @@ [c \in {LowerLetters[i] : i \in 1..26} |->
        96 + (CHOOSE i \in 1..26 : LowerLetters[i] = c)]
    @@ [c \in {DigitChars[i] : i \in 1..10} |->
        47 + (CHOOSE i \in 1..10 : DigitChars[i] = c)]
    @@ ("/" :> 47) @@ ("@" :> 64) @@ ("[" :> 91) @@ (SharpS :> 223)

\* c.upper() of one character: a string, "SS" for the sharp s
upper(c) == IF c = SharpS THEN <<"S", "S">> ELSE <<UpperChar(c)>>

\* int(c) of one character succeeds
IsDigit(c) == \E i \in 1..10 : DigitChars[i] = c

\* int(c) of a digit character
int(c) == (CHOOSE i \in 1..10 : DigitChars[i] = c) - 1

\* max(lo, min(hi, v))
Clamp(lo, hi, v) == IF v < lo THEN lo ELSE IF v > hi THEN hi ELSE v

ZeroSector == [x |-> 0, y |-> 0, z |-> 0]
ZeroSubsector == [x |-> 0, y |-> 0, z |-> 0, sx |-> 0, sy |-> 0, sz |-> 0]
ZeroSystem == [x |-> 0, y |-> 0, z |-> 0, sx |-> 0, sy |-> 0, sz |-> 0,
               system_pos |-> 0]

\* get_coordinates_from_sector counting the letters from A = 1
get_coordinates_from_sector_FromOne(loc) ==
    IF Len(loc) < 3 \/ \E i \in 1..3 : Len(upper(loc[i])) # 1
    THEN ZeroSector
    ELSE LET axis(i) == Clamp(0, MAX_AXIS, CharCode[upper(loc[i])[1]] - (ORD_A - 1))
         IN  [x |-> axis(1), y |-> axis(2), z |-> axis(3)]

\* get_coordinates_from_sector: ord() of a two-character upper() raises
\* TypeError, and the except branch returns zeros for all three axes
get_coordinates_from_sector(loc) ==
    IF Len(loc) < 3
    THEN ZeroSector
    ELSE IF \E i \in 1..3 : Len(upper(loc[i])) # 1
         THEN ZeroSector
         ELSE LET axis(i) == Clamp(0, MAX_AXIS, CharCode[upper(loc[i])[1]] - ORD_A)
              IN  [x |-> axis(1), y |-> axis(2), z |-> axis(3)]

\* lines 56-70: sx, sy, sz are assigned one after the other and clamped
\* after the third; the first int() that raises ValueError leaves the
\* assignments made so far as they are, unclamped
Offsets(part) ==
    LET ok(i) == \A j \in 1..i : IsDigit(part[j])
    IN  IF ok(3)
        THEN [sx |-> Clamp(0, MAX_OFFSET, int(part[1]) - 1),
              sy |-> Clamp(0, MAX_OFFSET, int(part[2]) - 1),
              sz |-> Clamp(0, MAX_OFFSET, int(part[3]) - 1)]
        ELSE [sx |-> IF ok(1) THEN int(part[1]) - 1 ELSE 0,
              sy |-> IF ok(2) THEN int(part[2]) - 1 ELSE 0,
              sz |-> 0]

\* get_coordinates_from_subsector keeping the digits 1-indexed
get_coordinates_from_subsector_OneIndexed(loc) ==
    IF Len(loc) < 6
    THEN ZeroSubsector
    ELSE LET sector_coords == get_coordinates_from_sector(SubSeq(loc, 1, 3))
             part == SubSeq(loc, 4, 6)
             off(i) == IF IsDigit(part[i]) THEN Clamp(0, MAX_OFFSET, int(part[i])) ELSE 0
         IN  [x |-> sector_coords.x, y |-> sector_coords.y, z |-> sector_coords.z,
              sx |-> off(1), sy |-> off(2), sz |-> off(3)]

\* get_coordinates_from_subsector
get_coordinates_from_subsector(loc) ==
    IF Len(loc) < 6
    THEN ZeroSubsector
    ELSE LET sector_coords == get_coordinates_from_sector(SubSeq(loc, 1, 3))
             off == Offsets(SubSeq(loc, 4, 6))
         IN  [x |-> sector_coords.x, y |-> sector_coords.y, z |-> sector_coords.z,
              sx |-> off.sx, sy |-> off.sy, sz |-> off.sz]

\* get_coordinates_from_system
get_coordinates_from_system(loc) ==
    IF Len(loc) < 7
    THEN ZeroSystem
    ELSE LET system_pos == IF IsDigit(loc[7])
                           THEN Clamp(0, MAX_OFFSET, int(loc[7]) - 1)
                           ELSE 0
             c == get_coordinates_from_subsector(SubSeq(loc, 1, 6))
         IN  [x |-> c.x, y |-> c.y, z |-> c.z, sx |-> c.sx, sy |-> c.sy,
              sz |-> c.sz, system_pos |-> system_pos]

\* "-".join(parts)
RECURSIVE JoinDash(_)
JoinDash(parts) ==
    IF Len(parts) = 0 THEN <<>>
    ELSE IF Len(parts) = 1 THEN parts[1]
    ELSE parts[1] \o <<"-">> \o JoinDash(Tail(parts))

\* format_location(location): the lengths are tested before the "/"
format_location(loc) ==
    IF loc = <<>> THEN <<>>
    ELSE IF Len(loc) = 3 THEN loc
    ELSE IF Len(loc) = 6
         THEN JoinDash(<<SubSeq(loc, 1, 3), SubSeq(loc, 4, 6)>>)
    ELSE IF Len(loc) = 7
         THEN JoinDash(<<SubSeq(loc, 1, 3), SubSeq(loc, 4, 6), <<loc[7]>>>>)
    ELSE IF Len(loc) = 8
         THEN JoinDash(<<SubSeq(loc, 1, 3), SubSeq(loc, 4, 6), <<loc[7]>>, <<loc[8]>>>>)
    ELSE IF HasSlash(loc) /\ Len(SplitSlash(loc)) \in {3, 4}
         THEN JoinDash(SplitSlash(loc))
    ELSE loc

\* codes in the "/"-delimited form, of several total lengths
SlashSample ==
    {MMM_222_1, MMM_2_2_1,
     <<"M", "M", "M", "/", "2", "/", "1">>,
     <<"M", "M", "/", "2", "/", "1">>,
     <<"M", "M", "M", "/", "2", "2", "/", "1">>,
     <<"M", "/", "2", "/", "2", "/", "1">>,
     <<"M", "M", "M", "/", "2", "2", "2">>,
     <<"A", "/", "B">>,
     <<"M", "/", "2", "/", "2", "/", "1", "/", "1">>}

\* the codes the codec is applied to
SectorChars == {"A", "m", "Z", "[", "1", SharpS}
OffsetChars == {"0", "5", "9", "x"}
PlaceDigits == {DigitChars[i] : i \in 2..10}
SectorSample == {MMM, ABC, <<"A", "Z", "Q">>}
OddSample == {MMM, <<SharpS, "A", "B">>}

CodecInputs ==
    \* anything of up to three characters
    UNION {[1..n -> SectorChars] : n \in 0..3}
    \* every sector code
    \cup [1..3 -> {UpperLetters[i] : i \in 1..26}]
    \* three characters followed by up to four digits or non-digits
    \cup {s \o d : s \in OddSample, d \in UNION {[1..n -> OffsetChars] : n \in 1..4}}
    \* subsector and system codes
    \cup {s \o d : s \in SectorSample, d \in UNION {[1..n -> PlaceDigits] : n \in 3..4}}
    \* planet codes
    \cup {ABC12311, MMM22211}
    \* codes with "/" between the parts
    \cup SlashSample

\* no codec call was made yet
NoCoords == [fn |-> "none", out |-> ZeroSector]

\* App.__init__ lines 37-40
NoSelection ==
    [selected_sector |-> None, selected_subsector |-> None,
     selected_system |-> None, selected_planet |-> None]

\* no selection or lookup call was made yet
NoCall == [fn |-> "none", arg |-> None, out |-> <<>>]

---------------------------------------------------------------------------
(* DataLoader lookups and App selection *)

\* row.get(column): None when the row has no such column
Get(row, column) == IF column \in DOMAIN row THEN row[column] ELSE None

\* Python truthiness of an id: None and 0 are false
TruthyId(v) == v # None /\ v[1] # 0

\* the first row of rows at one of the positions S, or None
FirstAt(rows, S) ==
    IF S = {} THEN None ELSE <<rows[CHOOSE i \in S : \A j \in S : i <= j]>>

\* get_sector, get_subsector, get_system, get_planet
ById(rows, id) ==
    IF id = None THEN None
    ELSE FirstAt(rows, {i \in 1..Len(rows) : rows[i].id = id[1]})

get_sector(L, sector_id) == ById(L.sectors, sector_id)
get_subsector(L, subsector_id) == ById(L.subsectors, subsector_id)
get_system(L, system_id) == ById(L.systems, system_id)
get_planet(L, planet_id) == ById(L.planets, planet_id)

\* the first row whose location == code
ByLocation(rows, code) ==
    FirstAt(rows, {i \in 1..Len(rows) : rows[i].location = Txt(code)})

\* DataLoader.get_sector_by_code
get_sector_by_code(L, sector_code) ==
    IF sector_code = <<>> THEN None ELSE ByLocation(L.sectors, sector_code)

\* DataLoader.get_sector_id_by_code: the dictionary first, then the list
get_sector_id_by_code(L, code) ==
    IF code \in DOMAIN L.sector_by_code THEN Some(L.sector_by_code[code])
    ELSE LET found == ByLocation(L.sectors, code)
         IN  IF found = None THEN None ELSE Some(found[1].id)

\* s.startswith(p)
StartsWith(s, p) == Len(p) <= Len(s) /\ SubSeq(s, 1, Len(p)) = p

\* ChildrenOf matching on the sector part of the parent's code only
ChildrenOf_SectorPart(parent, lower) ==
    IF parent = None \/ ~Truthy(parent[1].location) THEN <<>>
    ELSE SelectSeq(lower, LAMBDA r :
             Truthy(r.location)
             /\ StartsWith(r.location.s, Prefix(parent[1].location.s, 3)))

\* the list the three get_..._for_... functions build from the parent record
\* they found (None when they found none)
ChildrenOf(parent, lower) ==
    IF parent = None \/ ~Truthy(parent[1].location) THEN <<>>
    ELSE SelectSeq(lower, LAMBDA r :
             Truthy(r.location) /\ StartsWith(r.location.s, parent[1].location.s))

get_subsectors_for_sector(L, sector_id) ==
    ChildrenOf(get_sector(L, sector_id), L.subsectors)
get_systems_for_subsector(L, subsector_id) ==
    ChildrenOf(get_subsector(L, subsector_id), L.systems)
get_planets_for_system(L, system_id) ==
    ChildrenOf(get_system(L, system_id), L.planets)

\* what a selection of a sector leaves selected
OnlySector(id) == [NoSelection EXCEPT !.selected_sector = id]

\* App.select_sector_by_code: the selection it leaves and what it returns
SelectSectorByCode(L, sel, sector_code) ==
    LET sector == get_sector_by_code(L, sector_code)
    IN  IF sector_code = <<>> \/ sector = None
        THEN [sel |-> sel, out |-> FALSE]
        ELSE [sel |-> OnlySector(Some(sector[1].id)), out |-> TRUE]

\* App.select_sector
SelectSector(sel, sector_id) ==
    IF sector_id = None THEN sel ELSE OnlySector(sector_id)

\* the sector found by the first three characters of location, if any
\* (app.py lines 400-405, 445-448, 497-500)
SectorByPrefix(L, sel, loc) ==
    LET parent_sector == get_sector_by_code(L, Prefix(loc, 3))
    IN  IF Len(loc) >= 3 /\ parent_sector # None
        THEN [sel EXCEPT !.selected_sector = Some(parent_sector[1].id)]
        ELSE sel

\* the subsector found by the first six characters of a location value, and
\* then the sector (app.py lines 437-449, 489-501)
SubsectorByPrefix(L, sel, value) ==
    IF ~(Truthy(value) /\ Len(value.s) >= 6) THEN sel
    ELSE LET subsector == ByLocation(L.subsectors, Prefix(value.s, 6))
         IN  IF subsector = None THEN sel
             ELSE SectorByPrefix(L,
                      [sel EXCEPT !.selected_subsector = Some(subsector[1].id)],
                      value.s)

\* the subsector named by a stored subsector_id, and the sector that
\* subsector names (app.py lines 426-433, 472-477)
SubsectorByStoredId(L, sel, subsector_id) ==
    LET s2 == [sel EXCEPT !.selected_subsector = subsector_id]
        subsector == get_subsector(L, subsector_id)
    IN  IF subsector # None /\ TruthyId(Get(subsector[1], "sector_id"))
        THEN [s2 EXCEPT !.selected_sector = Get(subsector[1], "sector_id")]
        ELSE s2

\* App.select_subsector
SelectSubsector(L, sel, subsector_id) ==
    IF subsector_id = None THEN sel
    ELSE LET s1 == [sel EXCEPT !.selected_subsector = subsector_id,
                               !.selected_system = None,
                               !.selected_planet = None]
             subsector == get_subsector(L, subsector_id)
         IN  IF subsector = None THEN s1
             ELSE IF TruthyId(Get(subsector[1], "sector_id"))
             THEN [s1 EXCEPT !.selected_sector = Get(subsector[1], "sector_id")]
             ELSE IF Truthy(subsector[1].location)
             THEN SectorByPrefix(L, s1, subsector[1].location.s)
             ELSE s1

\* App.select_system
SelectSystem(L, sel, system_id) ==
    IF system_id = None THEN sel
    ELSE LET s1 == [sel EXCEPT !.selected_system = system_id,
                               !.selected_planet = None]
             system == get_system(L, system_id)
         IN  IF system = None THEN s1
             ELSE IF TruthyId(Get(system[1], "subsector_id"))
             THEN SubsectorByStoredId(L, s1, Get(system[1], "subsector_id"))
             ELSE SubsectorByPrefix(L, s1, system[1].location)

\* App.select_planet
SelectPlanet(L, sel, planet_id) ==
    IF planet_id = None THEN sel
    ELSE LET s1 == [sel EXCEPT !.selected_planet = planet_id]
             planet == get_planet(L, planet_id)
         IN  IF planet = None THEN s1
             ELSE IF TruthyId(Get(planet[1], "system_id"))
             THEN LET s2 == [s1 EXCEPT !.selected_system = Get(planet[1], "system_id")]
                      system == get_system(L, Get(planet[1], "system_id"))
                  IN  IF system # None /\ TruthyId(Get(system[1], "subsector_id"))
                      THEN SubsectorByStoredId(L, s2, Get(system[1], "subsector_id"))
                      ELSE s2
             ELSE IF ~(Truthy(planet[1].location) /\ Len(planet[1].location.s) >= 7)
             THEN s1
             ELSE LET system == ByLocation(L.systems, Prefix(planet[1].location.s, 7))
                  IN  IF system = None THEN s1
                      ELSE SubsectorByPrefix(L,
                               [s1 EXCEPT !.selected_system = Some(system[1].id)],
                               system[1].location)

\* the ids of the records of a collection, as the views hand them to the
\* select functions, and None
IdsOf(rows) == {None} \cup {Some(rows[i].id) : i \in 1..Len(rows)}

\* the ids a lookup is asked for: None, the ids in use and one beyond them
LookupIds(L) ==
    LET used == {r.id : r \in Range(L.sectors) \cup Range(L.subsectors)
                                \cup Range(L.systems) \cup Range(L.planets)}
    IN  {None} \cup {Some(i) : i \in 0..(IF used = {} THEN 1 ELSE MaxOf(used) + 1)}

\* the sector codes a selection by code is asked for
SelectCodes == {<<>>, ABC, MMM, MMN}

---------------------------------------------------------------------------
(* Operations *)

\* DataLoader(db_path) as App.__init__ constructs it, before its first
\* load_data()
Init ==
    /\ data_loader = NewLoader
    /\ conn = "None"
    /\ unreleased = 0
    /\ wyvern_locations = {}
    /\ db = NoDb
    /\ lastLoad = "none"
    /\ store = NoDb
    /\ pc = "app"
    /\ location = <<>>
    /\ coords = NoCoords
    /\ selection = NoSelection
    /\ call = NoCall

\* self.conn = sqlite3.connect(...): the connection self.conn held before is
\* dropped without close(); whether the runtime finalizes (and so closes) it
\* is not decided by the program
Reconnect(finalized) ==
    /\ conn' = "open"
    /\ IF conn = "open" /\ ~finalized
       THEN unreleased < MaxUnreleased /\ unreleased' = unreleased + 1
       ELSE unreleased' = unreleased

\* load() with the existence test of lines 26-27 inside the try: the except
\* branch empties the lists and load returns
load_missing_Caught(L) == LoadFailed(L)

\* load() when os.path.exists(db_path) is false (lines 26-27): it raises
\* FileNotFoundError before it touches the loader
load_missing(L) == L

\* App.load_data (also the call in App.__init__) against the store d:
\* DataLoader.load, then the cache rebuild
load_data(d) ==
    /\ db' = d
    /\ CASE d.file = "missing" ->
              \* load raises FileNotFoundError, load_data reports it
              /\ lastLoad' = "error"
              /\ data_loader' = load_missing(data_loader)
              /\ UNCHANGED <<conn, unreleased, wyvern_locations>>
         [] d.file = "unopenable" ->
              \* sqlite3.connect raises inside the try of load
              /\ lastLoad' = "ok"
              /\ data_loader' = LoadFailed(data_loader)
              /\ wyvern_locations' =
                     build_wyvern_locations_cache(wyvern_locations, <<>>)
              /\ UNCHANGED <<conn, unreleased>>
         [] OTHER ->
              /\ lastLoad' = "ok"
              /\ LET T == LoadTables(data_loader, d)
                 IN  \E order \in Orders(MissingSectors(T)) :
                        LET L == EnsureANM(create_stub_sectors(T, order))
                        IN  /\ data_loader' = L
                            /\ wyvern_locations' =
                                   build_wyvern_locations_cache(wyvern_locations,
                                                                L.planets)
              /\ \E finalized \in BOOLEAN : Reconnect(finalized)

\* DataLoader.close
close ==
    /\ conn' = "None"
    /\ UNCHANGED <<data_loader, unreleased, wyvern_locations, db, lastLoad>>
    /\ UNCHANGED <<store, pc, location, coords, selection, call>>

LoadData ==
    \E d \in Databases : load_data(d) /\ UNCHANGED <<store, pc, location, coords, selection, call>>

Next == LoadData \/ close

Spec == Init /\ [][Next]_vars

\* the same program over stores that hold the row sets of EdgeDatasets
EdgeLoadData ==
    \E d \in EdgeDatabases :
        load_data(d) /\ UNCHANGED <<store, pc, location, coords, selection, call>>

EdgeNext == EdgeLoadData \/ close

EdgeSpec == Init /\ [][EdgeNext]_vars

---------------------------------------------------------------------------
(* The program from its start (main.py) *)

WYVERN == <<"W", "Y", "V", "E", "R", "N">>

\* main.py line 36: UPPER(owner) LIKE '%WYVERN%' (NULL matches nothing)
LikeWyvern(planet) ==
    planet.owner.t = "text" /\ Contains(Upper(planet.owner.s), WYVERN)

\* a database file without any table
EmptyFile ==
    [file |-> "ok", st |-> [t \in Tables |-> "absent"], ds |-> 1, upd |-> FALSE]

\* main.py lines 28-61, the stores the Wyvern check may leave behind.
\* sqlite3.connect creates a file that is missing when its directory exists;
\* a SELECT that raises ends the check; when no planet matches and the table
\* has a row, that row is made a Wyvern planet and the change is committed
WyvernCheck(s) ==
    IF s.file = "missing" THEN {s, EmptyFile}
    ELSE IF s.file # "ok" \/ s.st["planets"] # "ok" THEN {s}
    ELSE LET rows == RowsOf(s, "planets")
         IN  IF (\E i \in 1..Len(rows) : LikeWyvern(rows[i])) \/ rows = <<>>
             THEN {s}
             ELSE {[s EXCEPT !.upd = TRUE]}

\* main.py starts: nothing is constructed, the file is as the user left it
MainInit ==
    /\ data_loader = NewLoader
    /\ conn = "None"
    /\ unreleased = 0
    /\ wyvern_locations = {}
    /\ db = NoDb
    /\ lastLoad = "none"
    /\ store \in Databases
    /\ pc = "main"
    /\ location = <<>>
    /\ coords = NoCoords
    /\ selection = NoSelection
    /\ call = NoCall

\* main.py lines 28-61
wyvern_check ==
    /\ pc = "main"
    /\ pc' = "checked"
    /\ store' \in WyvernCheck(store)
    /\ UNCHANGED <<data_loader, conn, unreleased, wyvern_locations, db, lastLoad,
                   location, coords, selection, call>>

\* main.py line 65, App(root, db_path): App.__init__ loads the data; the
\* cache it builds once more (lines 57-58) is the one load_data built, or the
\* empty one when load raised
App_init ==
    /\ pc = "checked"
    /\ pc' = "app"
    /\ load_data(store)
    /\ UNCHANGED <<store, location, coords, selection, call>>

\* the menu command "Reload Data" (app.py line 181)
ReloadData ==
    /\ pc = "app"
    /\ load_data(store)
    /\ UNCHANGED <<store, pc, location, coords, selection, call>>

MainNext == wyvern_check \/ App_init \/ ReloadData

MainSpec == MainInit /\ [][MainNext]_vars

---------------------------------------------------------------------------
(* The codec applied to a code *)

CodecInit ==
    /\ data_loader = NewLoader
    /\ conn = "None"
    /\ unreleased = 0
    /\ wyvern_locations = {}
    /\ db = NoDb
    /\ lastLoad = "none"
    /\ store = NoDb
    /\ pc = "app"
    /\ location \in CodecInputs
    /\ coords = NoCoords
    /\ selection = NoSelection
    /\ call = NoCall

\* sector_coords(code): a call of get_coordinates_from_sector
sector_coords ==
    /\ coords' = [fn |-> "sector", out |-> get_coordinates_from_sector(location)]
    /\ UNCHANGED <<data_loader, conn, unreleased, wyvern_locations, db, lastLoad,
                   store, pc, location, selection, call>>

\* subsector_coords(code): a call of get_coordinates_from_subsector
subsector_coords ==
    /\ coords' = [fn |-> "subsector", out |-> get_coordinates_from_subsector(location)]
    /\ UNCHANGED <<data_loader, conn, unreleased, wyvern_locations, db, lastLoad,
                   store, pc, location, selection, call>>

\* system_coords(code): a call of get_coordinates_from_system
system_coords ==
    /\ coords' = [fn |-> "system", out |-> get_coordinates_from_system(location)]
    /\ UNCHANGED <<data_loader, conn, unreleased, wyvern_locations, db, lastLoad,
                   store, pc, location, selection, call>>

\* format_for_display(code): a call of format_location
format_for_display ==
    /\ coords' = [fn |-> "format", out |-> format_location(location)]
    /\ UNCHANGED <<data_loader, conn, unreleased, wyvern_locations, db, lastLoad,
                   store, pc, location, selection, call>>

CodecNext == sector_coords \/ subsector_coords \/ system_coords \/ format_for_display

CodecSpec == CodecInit /\ [][CodecNext]_vars

---------------------------------------------------------------------------
(* The user interface: selections and lookups *)

\* main.py has made its check; App is about to be constructed
SelectInit ==
    /\ data_loader = NewLoader
    /\ conn = "None"
    /\ unreleased = 0
    /\ wyvern_locations = {}
    /\ db = NoDb
    /\ lastLoad = "none"
    /\ store \in SelectionDatabases
    /\ pc = "checked"
    /\ location = <<>>
    /\ coords = NoCoords
    /\ selection = NoSelection
    /\ call = NoCall

select_sector_by_code ==
    /\ pc = "app"
    /\ \E code \in SelectCodes :
          LET r == SelectSectorByCode(data_loader, selection, code)
          IN  /\ selection' = r.sel
              /\ call' = [fn |-> "select_sector_by_code", arg |-> code, out |-> <<r.out>>]
    /\ UNCHANGED <<data_loader, conn, unreleased, wyvern_locations, db, lastLoad,
                   store, pc, location, coords>>

select_sector ==
    /\ pc = "app"
    /\ \E id \in IdsOf(data_loader.sectors) :
          /\ selection' = SelectSector(selection, id)
          /\ call' = [fn |-> "select_sector", arg |-> id, out |-> <<>>]
    /\ UNCHANGED <<data_loader, conn, unreleased, wyvern_locations, db, lastLoad,
                   store, pc, location, coords>>

select_subsector ==
    /\ pc = "app"
    /\ \E id \in IdsOf(data_loader.subsectors) :
          /\ selection' = SelectSubsector(data_loader, selection, id)
          /\ call' = [fn |-> "select_subsector", arg |-> id, out |-> <<>>]
    /\ UNCHANGED <<data_loader, conn, unreleased, wyvern_locations, db, lastLoad,
                   store, pc, location, coords>>

select_system ==
    /\ pc = "app"
    /\ \E id \in IdsOf(data_loader.systems) :
          /\ selection' = SelectSystem(data_loader, selection, id)
          /\ call' = [fn |-> "select_system", arg |-> id, out |-> <<>>]
    /\ UNCHANGED <<data_loader, conn, unreleased, wyvern_locations, db, lastLoad,
                   store, pc, location, coords>>

select_planet ==
    /\ pc = "app"
    /\ \E id \in IdsOf(data_loader.planets) :
          /\ selection' = SelectPlanet(data_loader, selection, id)
          /\ call' = [fn |-> "select_planet", arg |-> id, out |-> <<>>]
    /\ UNCHANGED <<data_loader, conn, unreleased, wyvern_locations, db, lastLoad,
                   store, pc, location, coords>>

clear_selection ==
    /\ pc = "app"
    /\ selection' = NoSelection
    /\ call' = [fn |-> "clear_selection", arg |-> None, out |-> <<>>]
    /\ UNCHANGED <<data_loader, conn, unreleased, wyvern_locations, db, lastLoad,
                   store, pc, location, coords>>

\* a detail view asks for the children of the record it shows
children_of ==
    /\ pc = "app"
    /\ \E id \in LookupIds(data_loader) :
          \/ call' = [fn |-> "get_subsectors_for_sector", arg |-> id,
                      out |-> get_subsectors_for_sector(data_loader, id)]
          \/ call' = [fn |-> "get_systems_for_subsector", arg |-> id,
                      out |-> get_systems_for_subsector(data_loader, id)]
          \/ call' = [fn |-> "get_planets_for_system", arg |-> id,
                      out |-> get_planets_for_system(data_loader, id)]
    /\ UNCHANGED <<data_loader, conn, unreleased, wyvern_locations, db, lastLoad,
                   store, pc, location, coords, selection>>

SelectNext ==
    \/ App_init
    \/ select_sector_by_code
    \/ select_sector
    \/ select_subsector
    \/ select_system
    \/ select_planet
    \/ clear_selection
    \/ children_of

SelectSpec == SelectInit /\ [][SelectNext]_vars

---------------------------------------------------------------------------
(* Vocabulary of the properties *)

\* the non-empty text locations of a list of rows
Locations(rows) == {r.location.s : r \in {x \in Range(rows) : Truthy(x.location)}}

\* the locations of every loaded subsector, system and planet
LowerLocations ==
    Locations(data_loader.subsectors) \cup Locations(data_loader.systems)
        \cup Locations(data_loader.planets)

\* the most recent load returned normally
LoadCompleted == lastLoad = "ok"

\* the most recent load returned normally and read its tables from db
TablesRead == lastLoad = "ok" /\ db.file = "ok"

LowerOf == [c \in {UpperLetters[i] : i \in 1..26} |->
               LowerLetters[CHOOSE i \in 1..26 : UpperLetters[i] = c]]

\* two characters equal up to letter case
SameLetter(a, b) ==
    (IF a \in DOMAIN LowerOf THEN LowerOf[a] ELSE a)
        = (IF b \in DOMAIN LowerOf THEN LowerOf[b] ELSE b)

\* the owner field holds the marker text, letter case ignored
HasMarker(owner) ==
    /\ owner.t = "text"
    /\ \E i \in 1..(Len(owner.s) - Len(WYVERN_MARKER) + 1) :
           \A j \in 1..Len(WYVERN_MARKER) :
               SameLetter(owner.s[i + j - 1], WYVERN_MARKER[j])

\* the planets that count as owned: marker in the owner, location non-empty
OwnedPlanets ==
    {p \in Range(data_loader.planets) : HasMarker(p.owner) /\ Truthy(p.location)}

RECURSIVE Join(_)
\* the parts of a "/"-delimited code written one after the other
Join(parts) == IF parts = <<>> THEN <<>> ELSE Head(parts) \o Join(Tail(parts))

\* the codes a location can stand for: its prefixes and the joins of its
\* leading "/"-separated parts
DerivedCodes(loc) ==
    {Prefix(loc, n) : n \in 1..Len(loc)}
        \cup {Join(SubSeq(SplitSlash(loc), 1, k)) : k \in 1..Len(SplitSlash(loc))}

\* the four collection sizes, as get_stats reports them
Sizes == <<Len(data_loader.sectors), Len(data_loader.subsectors),
           Len(data_loader.systems), Len(data_loader.planets)>>

\* a record of the sector collection that was synthesized, not read
IsStub(s) == s.note \in {StubNote, ManualNote}

\* the sector codes implied by the loaded subsectors, systems and planets
ImpliedSectorCodes ==
    {c \in {PlanetSectorCode(loc) : loc \in
                {l \in Locations(data_loader.planets) : Len(l) >= 3}}
           \cup {Prefix(loc, 3) : loc \in
                {l \in Locations(data_loader.subsectors)
                          \cup Locations(data_loader.systems) : Len(l) >= 3}} :
        c # <<>>}

\* the most recent load found the file and opened it, and the query of
\* table t, and of no other table, failed
OnlyFailed(t) == db.file = "ok" /\ db.st = [AllOk EXCEPT ![t] = "fail"]

\* the positions of the sector collection that hold synthesized records
StubPositions == {i \in DOMAIN data_loader.sectors : IsStub(data_loader.sectors[i])}

\* the largest id of a sector record that was read from the store, 0 if none
TopLoadedId ==
    LET ids == {data_loader.sectors[i].id :
                    i \in DOMAIN data_loader.sectors \ StubPositions}
    IN  IF ids = {} THEN 0 ELSE MaxOf(ids)

\* the sector codes of the sectors table the most recent load read; none
\* when the table is absent
SectorTableCodes ==
    IF db.st["sectors"] = "ok" THEN Locations(RowsOf(db, "sectors")) ELSE {}

\* the rows of each table of the store s: none for a table it does not hold
StoreRows(s) ==
    [t \in Tables |->
        IF s.file = "ok" /\ s.st[t] # "absent" THEN RowsOf(s, t) ELSE <<>>]

\* the codec function fn was applied to location
Applied(fn) == coords.fn = fn

\* location is a sector code: three letters A..Z
IsLetter(c) == \E i \in 1..26 : UpperLetters[i] = c
IsSectorCode(loc) == Len(loc) = 3 /\ \A i \in 1..3 : IsLetter(loc[i])

\* A = 0 .. Z = 25
AlphabetPos(c) == (CHOOSE i \in 1..26 : UpperLetters[i] = c) - 1

\* the value of a digit 1..9
DigitValue(c) == CHOOSE v \in 1..9 : DigitChars[v + 1] = c

\* three letters A..Z followed by three digits 1..9
IsSubsectorCode(loc) ==
    /\ Len(loc) = 6
    /\ IsSectorCode(SubSeq(loc, 1, 3))
    /\ \A i \in 4..6 : loc[i] \in PlaceDigits

\* a subsector code followed by a digit 1..9
IsSystemCode(loc) ==
    /\ Len(loc) = 7
    /\ IsSubsectorCode(SubSeq(loc, 1, 6))
    /\ loc[7] \in PlaceDigits

\* the six values the claim gives a valid subsector code
ExpectedSubsector(loc) ==
    [x |-> AlphabetPos(loc[1]), y |-> AlphabetPos(loc[2]), z |-> AlphabetPos(loc[3]),
     sx |-> DigitValue(loc[4]) - 1, sy |-> DigitValue(loc[5]) - 1,
     sz |-> DigitValue(loc[6]) - 1]

\* the x, y, z of a codec result
SectorPart(out) == [x |-> out.x, y |-> out.y, z |-> out.z]

\* the sx, sy, sz of a codec result
OffsetPart(out) == <<out.sx, out.sy, out.sz>>

---------------------------------------------------------------------------
(* Properties *)

\* C1: after load() completes, the first 3 characters of every loaded
\* subsector, system and planet location of at least 3 characters are the
\* location of some record of the sector collection.
C1_SectorPrefixResolves ==
    LoadCompleted =>
        \A loc \in LowerLocations :
            Len(loc) >= 3 => Prefix(loc, 3) \in Locations(data_loader.sectors)

\* C2: after a load, every loaded code of length 6 has its first 3
\* characters in the sector collection, every code of length 7 its first 6
\* in the subsector collection, every code of length 8 its first 7 in the
\* system collection.
C2_PrefixContainmentAllLevels ==
    LoadCompleted =>
        \A loc \in LowerLocations :
            /\ Len(loc) = 6 => Prefix(loc, 3) \in Locations(data_loader.sectors)
            /\ Len(loc) = 7 => Prefix(loc, 6) \in Locations(data_loader.subsectors)
            /\ Len(loc) = 8 => Prefix(loc, 7) \in Locations(data_loader.systems)

\* C3: for every owned planet the cache holds its location and, each length
\* condition on its own, its prefixes of length 7, 6 and 3.
C3_OwnedPrefixesInCache ==
    lastLoad # "none" =>
        \A p \in OwnedPlanets :
            LET loc == p.location.s
            IN  /\ loc \in wyvern_locations
                /\ Len(loc) >= 7 => Prefix(loc, 7) \in wyvern_locations
                /\ Len(loc) >= 6 => Prefix(loc, 6) \in wyvern_locations
                /\ Len(loc) >= 3 => Prefix(loc, 3) \in wyvern_locations

\* C4 as stated: the owned planet "MMM/2/2/1" and the owned planet
\* "MMM2221" both put the sector code "MMM" and the subsector code "MMM222"
\* into the cache.
C4_SlashFormAsStated ==
    \A p \in OwnedPlanets :
        p.location.s \in {MMM_2_2_1, MMM2221} =>
            MMM \in wyvern_locations /\ MMM222 \in wyvern_locations

\* C4 amended: the "/"-delimited form is sector/subsector/system with the
\* three subsector digits in one part ("MMM/222/1").  An owned planet in that
\* form puts the same sector and subsector code into the cache as the planet
\* with the parts written together ("MMM2221"): the first 3 and the first 6
\* characters of the joined code.
C4_SlashFormSameCodes ==
    \A p \in OwnedPlanets :
        LET loc   == p.location.s
            parts == SplitSlash(loc)
            fixed == Join(parts)
        IN  (/\ Len(fixed) >= 7
             /\ HasSlash(loc) => Len(parts) >= 3 /\ Len(parts[1]) = 3 /\ Len(parts[2]) = 3)
            => /\ Prefix(fixed, 3) \in wyvern_locations
               /\ Prefix(fixed, 6) \in wyvern_locations

\* the cache after an owned planet "MMM/222/1" was loaded
C4_Witness ==
    /\ \E p \in OwnedPlanets : p.location.s = MMM_222_1
    /\ MMM222 \in wyvern_locations

\* C5: a planet contributes to the cache exactly when its owner holds the
\* marker, letter case ignored, and its location is not empty: every such
\* planet's location is in the cache, every code of the cache derives from
\* such a planet, and with "MMM2221" the only owned planet "MMM" is owned and
\* "MMN" is not.
C5_OnlyOwnedContribute ==
    lastLoad # "none" =>
        /\ \A p \in OwnedPlanets : p.location.s \in wyvern_locations
        /\ \A c \in wyvern_locations :
               \E p \in OwnedPlanets : c \in DerivedCodes(p.location.s)
        /\ {p.location.s : p \in OwnedPlanets} = {MMM2221} =>
               /\ {MMM2221, MMM222, MMM} \subseteq wyvern_locations
               /\ is_wyvern_location(MMM)
               /\ ~is_wyvern_location(MMN)

\* planets are loaded of which one holds the marker in lower case and is in
\* the cache, or of which one is not owned while another is
C5_Witness ==
    /\ lastLoad = "ok"
    /\ \E p \in Range(data_loader.planets) :
           /\ Truthy(p.location) /\ ~HasMarker(p.owner)
           /\ Prefix(p.location.s, 3) \notin wyvern_locations
    /\ \E p \in OwnedPlanets : p.location.s \in wyvern_locations

\* C6: the cache is exactly the set of codes of the owned planets the
\* repository holds now.
C6_CacheIsRebuilt ==
    lastLoad # "none" =>
        wyvern_locations =
            UNION {WyvernCodes(p.location.s) : p \in OwnedPlanets}

\* a reload (an earlier connection was dropped) left planets of which none
\* is owned, and an empty cache
C6_Witness ==
    /\ unreleased > 0
    /\ lastLoad = "ok"
    /\ data_loader.planets # <<>>
    /\ wyvern_locations = {}

\* C7: a load_data() against the data the previous load_data() read leaves
\* the four collection sizes and the cache as they were.
C7_ReloadIdempotent ==
    [][\A d \in Databases :
          (lastLoad # "none" /\ db = d /\ load_data(d)) =>
              (Sizes' = Sizes /\ wyvern_locations' = wyvern_locations)]_vars

\* C8: after a load in which the subsectors, systems or planets table is
\* absent that collection is empty, and after a load in which the sectors
\* table is absent the sector collection holds only synthesized stubs.
C8_AbsentTableIsEmpty ==
    TablesRead =>
        /\ \A t \in {"subsectors", "systems", "planets"} :
               db.st[t] = "absent" => data_loader[t] = <<>>
        /\ db.st["sectors"] = "absent" =>
               \A s \in Range(data_loader.sectors) : IsStub(s)

\* when the query of table t failed: the other collections hold the rows of
\* their tables (the sector collection: followed by the stubs), and stub
\* synthesis has run, so every implied sector code is a sector code of the
\* loader
C9_OthersLoaded(t) ==
    /\ \A u \in {"subsectors", "systems", "planets"} \ {t} :
           data_loader[u] = RowsOf(db, u)
    /\ t # "sectors" =>
           SubSeq(data_loader.sectors, 1, Len(RowsOf(db, "sectors")))
               = RowsOf(db, "sectors")
    /\ ImpliedSectorCodes \subseteq data_loader.sector_codes

\* C9 as stated: when the query of one table fails, load() returns, the
\* collection of that table is empty, the other three hold the rows of their
\* tables and stub synthesis has run over them.
C9_FailingTableEmpty ==
    \A t \in Tables :
        OnlyFailed(t) =>
            LoadCompleted /\ data_loader[t] = <<>> /\ C9_OthersLoaded(t)

\* C9 amended: when the query of one table fails, load() returns, the
\* collection of that table holds no row of the table (the subsector, system
\* or planet collection is empty; the sector collection holds only the stubs
\* synthesized by this load), the other three hold the rows of their tables
\* and stub synthesis has run over them.
C9_FailingTableHoldsNoRows ==
    \A t \in Tables :
        OnlyFailed(t) =>
            /\ LoadCompleted
            /\ t # "sectors" => data_loader[t] = <<>>
            /\ t = "sectors" => \A s \in Range(data_loader.sectors) : IsStub(s)
            /\ C9_OthersLoaded(t)

\* a reload whose planets query failed, the other tables holding rows
C9_Witness ==
    /\ OnlyFailed("planets")
    /\ RowsOf(db, "planets") # <<>>
    /\ data_loader.planets = <<>>
    /\ data_loader.subsectors # <<>>
    /\ unreleased > 0

\* C10: no connection opened by an earlier load stays open once a later
\* load has replaced it, and at most one connection is open at any time.
C10_ConnectionsReleased ==
    /\ unreleased = 0
    /\ (IF conn = "open" THEN 1 ELSE 0) + unreleased <= 1

\* C11: every stub sector's id is greater than every id of a sector read
\* from the store; the stub ids are pairwise distinct, increase in the order
\* of creation and are consecutive from the largest read id + 1; no stub
\* (the separately created "ANM" included) shares its id with another record
\* of the sector collection.
C11_StubIdsUnique ==
    LET secs == data_loader.sectors
    IN  /\ \A i \in StubPositions : \A j \in DOMAIN secs \ StubPositions :
               secs[i].id > secs[j].id
        /\ \A i \in StubPositions : \A j \in StubPositions :
               i < j => secs[i].id < secs[j].id
        /\ {secs[i].id : i \in StubPositions} =
               (TopLoadedId + 1)..(TopLoadedId + Cardinality(StubPositions))
        /\ \A i \in StubPositions : \A j \in DOMAIN secs :
               i # j => secs[i].id # secs[j].id

\* sectors read with ids 3, 1 and 4, in this order, followed by the stub of
\* a missing code with id 5 and the "ANM" sector with id 6
C11_Witness ==
    LET secs == data_loader.sectors
    IN  /\ Len(secs) = 5
        /\ <<secs[1].id, secs[2].id, secs[3].id>> = <<3, 1, 4>>
        /\ ~IsStub(secs[1]) /\ ~IsStub(secs[2]) /\ ~IsStub(secs[3])
        /\ secs[4].note = StubNote /\ secs[4].id = 5
        /\ secs[5].note = ManualNote /\ secs[5].id = 6

\* C12: after a load that read its tables, every sector code implied by a
\* loaded subsector, system or planet and not in the sectors table (the
\* table may be absent) is the location of exactly one record of the sector
\* collection, that record is marked automatically generated, and the
\* sector index maps the code to that record's id.
C12_MissingCodeHasOneAutoStub ==
    (TablesRead /\ db.st["sectors"] # "fail") =>
        \A c \in ImpliedSectorCodes \ SectorTableCodes :
            LET secs == data_loader.sectors
                recs == {i \in DOMAIN secs : secs[i].location = Txt(c)}
            IN  /\ Cardinality(recs) = 1
                /\ \A i \in recs :
                       /\ secs[i].note = StubNote
                       /\ c \in DOMAIN data_loader.sector_by_code
                       /\ data_loader.sector_by_code[c] = secs[i].id

\* C13: no step of the program (start, load, reload) changes a row of the
\* sectors, subsectors, systems or planets table of the store.
C13_StoreReadOnly == [][StoreRows(store') = StoreRows(store)]_vars

\* C14: a load_data() against a database file that does not exist ends with
\* load() raising, and leaves the collections, the indices and the ownership
\* cache as they were.
C14_MissingFileLeavesLoader ==
    [][\A d \in Databases :
          (d.file = "missing" /\ load_data(d)) =>
              /\ lastLoad' = "error"
              /\ data_loader' = data_loader
              /\ wyvern_locations' = wyvern_locations]_vars

\* a reload found the file gone: load raised, and the planets and the
\* owned codes of the earlier load are still held
C14_Witness ==
    /\ lastLoad = "error"
    /\ db.file = "missing"
    /\ data_loader.planets # <<>>
    /\ wyvern_locations # {}

\* C15: sector_coords returns, for a code of at least 3 characters, for each
\* of the first three characters that has an upper-case character the code of
\* that character - 65 clamped to 0..25, and (0,0,0) for a shorter code; each
\* value is in 0..25.
C15_SectorCoordsClamped ==
    Applied("sector") =>
        /\ IF Len(location) >= 3
           THEN \A i \in 1..3 :
                    Len(upper(location[i])) = 1 =>
                        <<coords.out.x, coords.out.y, coords.out.z>>[i]
                            = Clamp(0, MAX_AXIS, CharCode[upper(location[i])[1]] - ORD_A)
           ELSE coords.out = ZeroSector
        /\ {coords.out.x, coords.out.y, coords.out.z} \subseteq 0..MAX_AXIS

\* C16: for every sector code of three letters A..Z, the letters at the
\* alphabet positions sector_coords returns are the code.
C16_SectorRoundTrip ==
    (Applied("sector") /\ IsSectorCode(location)) =>
        <<UpperLetters[coords.out.x + 1], UpperLetters[coords.out.y + 1],
          UpperLetters[coords.out.z + 1]>> = location

\* sector_coords was applied to "QAZ" and returned 16, 0, 25
C16_Witness ==
    /\ location = <<"Q", "A", "Z">>
    /\ coords = [fn |-> "sector", out |-> [x |-> 16, y |-> 0, z |-> 25]]

\* C17: for every code, the sx, sy, sz that subsector_coords and
\* system_coords return, and the system_pos of system_coords, are in 0..8.
C17_OffsetsInRange ==
    (Applied("subsector") \/ Applied("system")) =>
        /\ {coords.out.sx, coords.out.sy, coords.out.sz} \subseteq 0..8
        /\ Applied("system") => coords.out.system_pos \in 0..8

\* C18: for a code of at least 6 characters of which the 4th, 5th or 6th is
\* not a digit, subsector_coords returns sx = sy = sz = 0 and the x, y, z of
\* sector_coords of the first three characters.
C18_NonDigitZeroesOffsets ==
    (/\ Applied("subsector")
     /\ Len(location) >= 6
     /\ \E i \in 4..6 : ~IsDigit(location[i]))
    => /\ OffsetPart(coords.out) = <<0, 0, 0>>
       /\ SectorPart(coords.out) = get_coordinates_from_sector(SubSeq(location, 1, 3))

\* C19: for a code of 3, 4 or 5 characters subsector_coords returns zero
\* offsets and the x, y, z of sector_coords of the first three characters;
\* for a code of 6 characters system_coords returns what subsector_coords
\* returns for it, with system_pos 0.
C19_ShortCodeDecodesSector ==
    /\ (Applied("subsector") /\ Len(location) \in 3..5) =>
           /\ OffsetPart(coords.out) = <<0, 0, 0>>
           /\ SectorPart(coords.out)
                  = get_coordinates_from_sector(SubSeq(location, 1, 3))
    /\ (Applied("system") /\ Len(location) = 6) =>
           /\ coords.out.system_pos = 0
           /\ [f \in DOMAIN ZeroSubsector |-> coords.out[f]]
                  = get_coordinates_from_subsector(location)

\* C20: for every valid subsector code subsector_coords returns the alphabet
\* positions of the three letters and each digit minus 1 ("MMM222" gives
\* 12,12,12 and 1,1,1); for every valid system code system_coords returns
\* these six values for the first six characters and the 7th digit minus 1
\* as system_pos.
C20_ValidCodesDecode ==
    /\ (Applied("subsector") /\ IsSubsectorCode(location)) =>
           /\ coords.out = ExpectedSubsector(location)
           /\ SectorPart(coords.out)
                  = get_coordinates_from_sector(SubSeq(location, 1, 3))
    /\ (Applied("system") /\ IsSystemCode(location)) =>
           /\ [f \in DOMAIN ZeroSubsector |-> coords.out[f]]
                  = ExpectedSubsector(SubSeq(location, 1, 6))
           /\ coords.out.system_pos = DigitValue(location[7]) - 1

\* subsector_coords was applied to "MMM222" and returned 12,12,12 and 1,1,1
C20_Witness ==
    /\ location = MMM222
    /\ coords = [fn |-> "subsector",
                 out |-> [x |-> 12, y |-> 12, z |-> 12, sx |-> 1, sy |-> 1, sz |-> 1]]


---------------------------------------------------------------------------
(* C21 *)

\* the separators of a fixed-width code: after positions 3, 6 and 7
FixedWidthDisplay(loc) ==
    JoinDash(<<SubSeq(loc, 1, 3), SubSeq(loc, 4, 6)>>
             \o [i \in 1..(Len(loc) - 6) |-> <<loc[6 + i]>>])

\* C21: format_for_display joins the parts of a code that contains "/" and
\* splits into three or four parts by "-", whatever its total length; a code
\* without "/" of length 6, 7 or 8 gets "-" after positions 3, 6 and 7; a code
\* without "/" of any other length is returned unchanged.
C21_SlashPartsJoined ==
    Applied("format") =>
        /\ (HasSlash(location) /\ Len(SplitSlash(location)) \in {3, 4})
               => coords.out = JoinDash(SplitSlash(location))
        /\ (~HasSlash(location) /\ Len(location) \in {6, 7, 8})
               => coords.out = FixedWidthDisplay(location)
        /\ (~HasSlash(location) /\ Len(location) \notin {6, 7, 8})
               => coords.out = location


---------------------------------------------------------------------------
(* C22 *)

\* p is a prefix of s
HasPrefix(s, p) == \E n \in 0..Len(s) : SubSeq(s, 1, n) = p

\* the value is a text that is not empty
Located(r) == r.location.t = "text" /\ r.location.s # <<>>

\* the three lookups of children, the collection each finds the parent in and
\* the collection each takes the children from
Lookups ==
    {"get_subsectors_for_sector", "get_systems_for_subsector", "get_planets_for_system"}

ParentRows(fn) ==
    CASE fn = "get_subsectors_for_sector" -> data_loader.sectors
      [] fn = "get_systems_for_subsector" -> data_loader.subsectors
      [] fn = "get_planets_for_system" -> data_loader.systems

ChildRows(fn) ==
    CASE fn = "get_subsectors_for_sector" -> data_loader.subsectors
      [] fn = "get_systems_for_subsector" -> data_loader.systems
      [] fn = "get_planets_for_system" -> data_loader.planets

\* the records of rows that have the id
WithId(rows, id) == {r \in Range(rows) : id # None /\ r.id = id[1]}

\* C22: a lookup of children returns the records of the next-lower collection
\* whose location is a non-empty text that starts with the location of the
\* parent record, each once and no other; it returns the empty list when the
\* parent id is None, when no record has that id and when the parent record
\* has no location.  Ids are unique within a collection and locations are
\* text or NULL.
C22_ChildrenByPrefix ==
    call.fn \in Lookups =>
        LET parents == {r \in WithId(ParentRows(call.fn), call.arg) : Located(r)}
        IN  IF parents = {}
            THEN call.out = <<>>
            ELSE /\ \A p \in parents :
                      Range(call.out) =
                          {r \in Range(ChildRows(call.fn)) :
                               Located(r) /\ HasPrefix(r.location.s, p.location.s)}
                 /\ Cardinality(Range(call.out)) = Len(call.out)

\* the systems of a subsector were asked for, some were returned, and a
\* system of another subsector of the same sector was not
C22_Witness ==
    /\ call.fn = "get_systems_for_subsector"
    /\ call.out # <<>>
    /\ \E r \in Range(data_loader.systems) :
           /\ Located(r)
           /\ r \notin Range(call.out)
           /\ Prefix(r.location.s, 3) = Prefix(call.out[1].location.s, 3)

---------------------------------------------------------------------------
(* C23, C24 *)

\* the parents of the record r by the two-step rule: the id stored in its
\* parent-id column when the column is there and not NULL, and otherwise the
\* ids of the records of rows whose location is the first n characters of
\* the location of r; none when neither gives one
Parents(r, column, n, rows) ==
    IF column \in DOMAIN r /\ r[column] # None
    THEN {r[column]}
    ELSE IF Located(r) /\ Len(r.location.s) >= n
    THEN {Some(x.id) : x \in {y \in Range(rows) :
                                  y.location = Txt(SubSeq(r.location.s, 1, n))}}
    ELSE {}

SectorsOf(u) == Parents(u, "sector_id", 3, data_loader.sectors)
SubsectorsOf(y) == Parents(y, "subsector_id", 6, data_loader.subsectors)
SystemsOf(p) == Parents(p, "system_id", 7, data_loader.systems)

\* the selected record of each level
SelectedSubsector == WithId(data_loader.subsectors, selection.selected_subsector)
SelectedSystem == WithId(data_loader.systems, selection.selected_system)
SelectedPlanet == WithId(data_loader.planets, selection.selected_planet)

\* the selection of a level is the parent the rule gives, when it gives one
SectorResolved(u) ==
    SectorsOf(u) # {} => selection.selected_sector \in SectorsOf(u)

SubsectorResolved(y) ==
    SubsectorsOf(y) # {} =>
        /\ selection.selected_subsector \in SubsectorsOf(y)
        /\ \A u \in SelectedSubsector : SectorResolved(u)

SystemResolved(p) ==
    SystemsOf(p) # {} =>
        /\ selection.selected_system \in SystemsOf(p)
        /\ \A y \in SelectedSystem : SubsectorResolved(y)

\* C23: after select_subsector, select_system or select_planet of a record
\* the repository holds, every ancestor up the walk is the one the two-step
\* rule gives for the record below it: its stored parent id when present and
\* non-null, otherwise the record found by its location prefix of 7, 6 or 3
\* characters, whenever that rule gives a parent.
C23_TwoStepAtEveryLevel ==
    /\ call.fn = "select_subsector" =>
           \A u \in WithId(data_loader.subsectors, call.arg) : SectorResolved(u)
    /\ call.fn = "select_system" =>
           \A y \in WithId(data_loader.systems, call.arg) : SubsectorResolved(y)
    /\ call.fn = "select_planet" =>
           \A p \in WithId(data_loader.planets, call.arg) : SystemResolved(p)

\* no record of rows has the first n characters of the location of r
NoneByPrefix(r, n, rows) == Parents([id |-> r.id, location |-> r.location], "", n, rows) = {}

\* the levels left without a parent are not selected
UnresolvedLevelsNull ==
    /\ call.fn = "select_subsector" =>
           \A u \in WithId(data_loader.subsectors, call.arg) :
               SectorsOf(u) = {} => selection.selected_sector = None
    /\ call.fn = "select_system" =>
           \A y \in WithId(data_loader.systems, call.arg) :
               SubsectorsOf(y) = {} =>
                   /\ selection.selected_subsector = None
                   /\ NoneByPrefix(y, 3, data_loader.sectors)
                          => selection.selected_sector = None
    /\ call.fn = "select_planet" =>
           \A p \in WithId(data_loader.planets, call.arg) :
               SystemsOf(p) = {} =>
                   /\ selection.selected_system = None
                   /\ NoneByPrefix(p, 6, data_loader.subsectors)
                          => selection.selected_subsector = None
                   /\ NoneByPrefix(p, 3, data_loader.sectors)
                          => selection.selected_sector = None

\* C24: a call of select_subsector, select_system or select_planet leaves
\* every level whose parent cannot be resolved (no stored parent id and no
\* record with the derived prefix) unselected, whatever was selected before
\* the call, and it leaves the collections of the repository as they were.
C24_UnresolvedLevelIsNull ==
    [][call'.fn \in {"select_subsector", "select_system", "select_planet"}
          => UnresolvedLevelsNull' /\ data_loader' = data_loader]_vars

---------------------------------------------------------------------------
(* C25, C26 *)

\* the locations of rows that are a non-empty text
TextLocations(rows) == {r.location.s : r \in {x \in Range(rows) : Located(x)}}

\* those of every loaded subsector, system and planet
LowerTextLocations ==
    TextLocations(data_loader.subsectors) \cup TextLocations(data_loader.systems)
        \cup TextLocations(data_loader.planets)

\* C25: after a load that read its tables, for every loaded subsector,
\* system or planet location that contains "/", the part before the first
\* "/" is the location of a record of the sector collection (read from the
\* sectors table, or the stub made for it).
C25_SlashRuleAtEveryLevel ==
    TablesRead =>
        \A loc \in {l \in LowerTextLocations : HasSlash(l)} :
            SplitSlash(loc)[1] # <<>>
                => SplitSlash(loc)[1] \in TextLocations(data_loader.sectors)

\* C26: a load of a store whose file opens and whose sectors table is read
\* returns normally, and every sector prefix implied by a loaded text
\* location of three characters or more (written without "/") is then the
\* location of a record of the sector collection, whichever other records
\* have a location that is NULL, empty or a number.
C26_MalformedLocationSkipped ==
    (db.file = "ok" /\ db.st["sectors"] = "ok") =>
        /\ lastLoad = "ok"
        /\ \A loc \in {l \in LowerTextLocations : ~HasSlash(l) /\ Len(l) >= 3} :
               Prefix(loc, 3) \in TextLocations(data_loader.sectors)

---------------------------------------------------------------------------
(* C27, C28, C29 *)

\* C27: after a load that read its tables, every synthesized record of the
\* sector collection has the sector code that some loaded subsector, system
\* or planet location implies.
C27_NoSpuriousStubs ==
    TablesRead =>
        \A i \in StubPositions :
            data_loader.sectors[i].location.s \in ImpliedSectorCodes

\* the index maps exactly the non-empty locations of rows, each to the id of
\* a record of rows that has the location
IndexMatches(index, rows) ==
    /\ DOMAIN index = Locations(rows)
    /\ \A c \in DOMAIN index :
           \E r \in Range(rows) : r.location = Txt(c) /\ r.id = index[c]

\* C28: after every load, however it ended, the sector code set and the
\* sector index hold exactly the non-empty locations of the records of the
\* sector collection, and the subsector and system indices those of their
\* collections.
C28_IndicesMatchCollections ==
    lastLoad # "none" =>
        /\ data_loader.sector_codes = Locations(data_loader.sectors)
        /\ IndexMatches(data_loader.sector_by_code, data_loader.sectors)
        /\ IndexMatches(data_loader.subsector_by_code, data_loader.subsectors)
        /\ IndexMatches(data_loader.system_by_code, data_loader.systems)

\* the codes the two lookups are compared on: every location of a sector
\* record, every code of the index, the empty code and a code of no sector
LookupCodes ==
    {r.location.s : r \in {x \in Range(data_loader.sectors) : x.location.t = "text"}}
        \cup DOMAIN data_loader.sector_by_code \cup {<<>>, MMN}

\* C29: in every state a load leaves, for every code, get_sector_id_by_code
\* returns the id of the record get_sector_by_code returns, and None exactly
\* when that one returns None.
C29_LookupsByCodeAgree ==
    \A code \in LookupCodes :
        LET id == get_sector_id_by_code(data_loader, code)
            sector == get_sector_by_code(data_loader, code)
        IN  IF sector = None THEN id = None ELSE id = Some(sector[1].id)

---------------------------------------------------------------------------
(* C30 *)

\* C30: in every state the selection reaches, when two adjacent levels are
\* both selected, the upper one is the parent of the lower record: the id in
\* its parent-id column, or else a record found by its location prefix.
C30_SelectedChainConsistent ==
    /\ (selection.selected_subsector # None /\ selection.selected_sector # None)
           => \A u \in SelectedSubsector : selection.selected_sector \in SectorsOf(u)
    /\ (selection.selected_system # None /\ selection.selected_subsector # None)
           => \A y \in SelectedSystem : selection.selected_subsector \in SubsectorsOf(y)
    /\ (selection.selected_planet # None /\ selection.selected_system # None)
           => \A p \in SelectedPlanet : selection.selected_system \in SystemsOf(p)

====
